---------------------------- MODULE Spec2Model ----------------------------
(***************************************************************************)
(* A model of dace/transformation/estimator/soap/io_analysis.py:           *)
(*                                                                         *)
(*   - IOAnalysisSubgraph.get_data_decomposition (lines 31-58), the map    *)
(*     from a global rank to the iteration ranges of every input array;    *)
(*   - perform_soap_analysis (lines 68-109) and                            *)
(*     perform_soap_analysis_einsum (lines 113-150), the two entry points  *)
(*     that drive the solver session, the SDG and the analysis engine.     *)
(*                                                                         *)
(* Strings are sequences of one-character strings, so that                 *)
(* access.split('*') is computed and not assumed.  A dict is a function,   *)
(* and an insertion-ordered dict that the code iterates over is a sequence *)
(* of its keys (or of key/value records).                                  *)
(***************************************************************************)
EXTENDS Integers, Sequences, FiniteSets, TLC

(***************************************************************************)
(* Bounds of the model.                                                    *)
(***************************************************************************)
\* the number of iteration dimensions (len(variables)) is 1 .. MaxDims
MaxDims == 2
\* product(p_grid) is at most MaxRanks; ranks 0 .. MaxRanks + 1 are queried
MaxRanks == 4
\* product(dimensions_ordered) is at most MaxCells
MaxCells == 6
\* an array has 1 .. MaxTerms access terms
MaxTerms == 2

\* the engine returns 1 .. MaxSubgraphs subgraphs
MaxSubgraphs == 2
\* an SDG has 1 .. MaxComponents weakly connected components
MaxComponents == 2
\* the rank count init_decomposition is asked for
TargetRanks == 2

\* solver.set_timeout(300), lines 88 and 130
SolverTimeout == 300

VARIABLES
    \* get_data_decomposition
    self,       \* the IOAnalysisSubgraph get_data_decomposition is called on
    self0,      \* history: the fields of self as constructed
    pp,         \* the rank argument of the latest call
    ret,        \* the outcome of the latest call
    \* perform_soap_analysis and perform_soap_analysis_einsum
    entry,      \* the entry point that was called, "none" before the call
    pc,         \* the line the call is at, or idle, returned, raised
    error,      \* the exception the call raised, "none" if none
    generate_schedule,  \* the argument generate_schedule
    params,     \* the local params: "[]", "caller" or "parsed"
    solvers,    \* the caller's Solver and the call's own Solver
    solvers0,   \* history: solvers when the entry point was called
    sdg,        \* the weakly connected components of the SDG, 0: no SDG yet
    engine_calls,   \* the number of calls of sdg.calculate_IO_of_SDG
    subgraphs,  \* the live subgraphs the engine returned
    subgraphs_res   \* the snapshots built so far (line 137)

decomposition_vars == <<self, self0, pp, ret>>

orchestrator_vars ==
    <<entry, pc, error, generate_schedule, params, solvers, solvers0, sdg,
      engine_calls, subgraphs, subgraphs_res>>

vars == <<decomposition_vars, orchestrator_vars>>

(***************************************************************************)
(* Strings and symbols.                                                    *)
(***************************************************************************)
\* the names of the loop iterators, in dimension order
IterNames == <<"i", "j", "k", "l">>

\* a sympy Symbol, reduced to its name
Symbol(n) == [name |-> <<n>>]

\* str(var) of a sympy Symbol: its name
str(var) == var.name

\* min gone wrong: the larger one
min_as_max(a, b) == IF b < a THEN a ELSE b

\* min(a, b) of line 46
min(a, b) == IF b < a THEN b ELSE a

\* the index of the first sep in s, 0 when there is none
RECURSIVE find(_, _, _)
find(s, sep, k) ==
    IF k > Len(s) THEN 0
    ELSE IF s[k] = sep THEN k
    ELSE find(s, sep, k + 1)

\* access.split(sep): the pieces between the separators, empty pieces kept
RECURSIVE split(_, _)
split(s, sep) ==
    LET k == find(s, sep, 1)
    IN  IF k = 0 THEN <<s>>
        ELSE <<SubSeq(s, 1, k - 1)>> \o split(SubSeq(s, k + 1, Len(s)), sep)

(***************************************************************************)
(* get_data_decomposition, lines 31-58.                                    *)
(***************************************************************************)
\* sp.prod(xs): the product of a list, 1 for the empty list
RECURSIVE prod(_)
prod(xs) == IF xs = <<>> THEN 1 ELSE Head(xs) * prod(Tail(xs))

\* self.p_grid[dim_num+1 :], dim_num counted from 1 here
suffix(p_grid, dim_num) == SubSeq(p_grid, dim_num + 1, Len(p_grid))

\* idle_rank gone wrong: < in place of <=
idle_rank_strict(p_grid, rank) == prod(p_grid) < rank

\* line 34: the rank is not used by the decomposition
idle_rank(p_grid, rank) == prod(p_grid) <= rank

\* div gone wrong: the quotient is rounded up
div_rounds_up(x, y) == (x + (y - 1)) \div y

\* line 38: div = lambda x,y: (x-x%y)/y
div(x, y) == (x - (x % y)) \div y

\* unrank gone wrong: line 43, pp -= ..., is missing
RECURSIVE unrank_keeps_rank(_, _, _, _)
unrank_keeps_rank(p_grid, dim_num, rank, p_pos) ==
    IF dim_num > Len(p_grid) THEN [p_pos |-> p_pos, pp |-> rank]
    ELSE unrank_keeps_rank(p_grid, dim_num + 1, rank,
            Append(p_pos, div(rank, prod(suffix(p_grid, dim_num)))))

\* lines 39-43: the loop over the dimensions of p_grid; returns the
\* locals p_pos and pp as they are when the loop ends
RECURSIVE unrank(_, _, _, _)
unrank(p_grid, dim_num, rank, p_pos) ==
    IF dim_num > Len(p_grid) THEN [p_pos |-> p_pos, pp |-> rank]
    ELSE LET p_dim == div(rank, prod(suffix(p_grid, dim_num)))
         IN  unrank(p_grid, dim_num + 1,
                    rank - p_dim * prod(suffix(p_grid, dim_num)),
                    Append(p_pos, p_dim))

\* dim_range gone wrong: the start is clamped at dim_size as the end is
dim_range_clamps_start(p, loc, dim_size) == <<min(p * loc, dim_size), min((p + 1) * loc, dim_size)>>

\* dim_range gone wrong: the end is not clamped at dim_size
dim_range_unclamped(p, loc, dim_size) == <<p * loc, (p + 1) * loc>>

\* line 46: the (start, end) pair of one dimension
dim_range(p, loc, dim_size) == <<p * loc, min((p + 1) * loc, dim_size)>>

\* lines 45-47: the dict comprehension over
\* enumerate(zip(self.variables, self.dimensions_ordered)); zip stops at
\* the shorter list and a repeated key keeps its last value
iter_ranges(s, p_pos) ==
    LET n == IF Len(s.variables) <= Len(s.dimensions_ordered)
             THEN Len(s.variables) ELSE Len(s.dimensions_ordered)
        last(key) == CHOOSE i \in 1..n :
                        /\ str(s.variables[i]) = key
                        /\ \A j \in (i + 1)..n : str(s.variables[j]) # key
    IN  [key \in {str(s.variables[i]) : i \in 1..n} |->
            dim_range(p_pos[last(key)], s.loc_domain_dims[last(key)],
                      s.dimensions_ordered[last(key)])]

\* access_rngs gone wrong: a piece that is no key of iter_ranges is
\* skipped
access_rngs_skips_missing(access, ranges) ==
    LET its == split(access, "*")
    IN  [error |-> "none",
         rngs |-> [it \in {its[n] : n \in 1..Len(its)} \cap DOMAIN ranges |->
                        ranges[it]]]

\* lines 53-55 for one access term: rngs = {} and then one entry per piece
\* of access.split('*'); a piece that is no key of iter_ranges raises
\* KeyError
access_rngs(access, ranges) ==
    LET its == split(access, "*")
    IN  IF \E n \in 1..Len(its) : its[n] \notin DOMAIN ranges
        THEN [error |-> "KeyError"]
        ELSE [error |-> "none",
              rngs |-> [it \in {its[n] : n \in 1..Len(its)} |-> ranges[it]]]

\* lines 52-55: the loop over the access terms of one array; rngs is the
\* local as it is before the loop (unbound, or left by the previous array)
RECURSIVE accesses_loop(_, _, _, _)
accesses_loop(accesses, n, rngs, ranges) ==
    IF n > Len(accesses) THEN rngs
    ELSE LET r == access_rngs(accesses[n], ranges)
         IN  IF r.error # "none" THEN r
             ELSE accesses_loop(accesses, n + 1, r, ranges)

\* line 56: par_distribution[arr] = rngs
set_item(d, key, value) ==
    [k \in DOMAIN d \cup {key} |-> IF k = key THEN value ELSE d[k]]

\* lines 50-56: the loop over self.input_arrays.items()
RECURSIVE arrays_loop(_, _, _, _, _)
arrays_loop(arrays, n, par_distribution, rngs, ranges) ==
    IF n > Len(arrays) THEN [error |-> "none", value |-> par_distribution]
    ELSE LET r == accesses_loop(arrays[n].accesses, 1, rngs, ranges)
         IN  IF r.error = "unbound" THEN [error |-> "UnboundLocalError"]
             ELSE IF r.error # "none" THEN [error |-> r.error]
             ELSE arrays_loop(arrays, n + 1,
                              set_item(par_distribution, arrays[n].arr, r.rngs),
                              r, ranges)

\* the empty dict
EmptyDict == [k \in {} |-> <<>>]

\* lines 31-58.  The result records how the call ended (error), what it
\* returned (value), whether the idle diagnostic was printed (idle) and
\* the locals p_pos, pp and iter_ranges as the call left them.
get_data_decomposition(s, rank) ==
    IF idle_rank(s.p_grid, rank)
    THEN [error |-> "none", value |-> EmptyDict, idle |-> TRUE,
          p_pos |-> <<>>, pp |-> rank, iter_ranges |-> EmptyDict]
    ELSE LET u == unrank(s.p_grid, 1, rank, <<>>)
             ranges == iter_ranges(s, u.p_pos)
             r == arrays_loop(s.input_arrays, 1, EmptyDict,
                              [error |-> "unbound"], ranges)
         IN  [error |-> r.error,
              value |-> IF r.error = "none" THEN r.value ELSE EmptyDict,
              idle |-> FALSE,
              p_pos |-> u.p_pos, pp |-> u.pp, iter_ranges |-> ranges]

\* fields_after_call gone wrong: the call reverses self.p_grid in place
fields_after_call_reverses_grid(s, rank) ==
    [s EXCEPT !.p_grid = [i \in 1..Len(@) |-> @[Len(@) + 1 - i]]]

\* the fields of self after a call: no statement of lines 31-58 assigns to
\* a field of self or changes a list or dict that self holds (pp -= ...
\* rebinds the local, p_pos, iter_ranges, rngs and par_distribution are
\* created by the call)
fields_after_call(s, rank) == s

(***************************************************************************)
(* The subgraphs get_data_decomposition is called on.                      *)
(***************************************************************************)
\* the lists of length n over the set S
Lists(S, n) == [1..n -> S]

\* the first n loop iterators as symbols
first_variables(n) == [i \in 1..n |-> Symbol(IterNames[i])]

\* an IOAnalysisSubgraph (lines 13-29); name, Q, rho and the two tiles are
\* not read by get_data_decomposition and are left out
IOAnalysisSubgraph(variables, input_arrays, loc_domain_dims, p_grid, dimensions_ordered) ==
    [variables |-> variables, input_arrays |-> input_arrays,
     loc_domain_dims |-> loc_domain_dims, p_grid |-> p_grid,
     dimensions_ordered |-> dimensions_ordered]

\* the access terms of the model: "i", "k", "i*j", "i*k"
AccessTerms == {<<"i">>, <<"k">>, <<"i", "*", "j">>, <<"i", "*", "k">>}

\* the keys of one array's dict of accesses, in insertion order: 1 ..
\* MaxTerms distinct access terms (the values, pars, are not read)
Accesses ==
    UNION {{a \in Lists(AccessTerms, n) :
                \A x, y \in 1..n : x # y => a[x] # a[y]} : n \in 1..MaxTerms}

\* input_arrays (phis): no array, array "A", or arrays "A" and "B"
InputArrays ==
    {<<>>}
    \cup {<<[arr |-> "A", accesses |-> a]>> : a \in Accesses}
    \cup {<<[arr |-> "A", accesses |-> a], [arr |-> "B", accesses |-> b]>> :
            a \in Accesses, b \in Accesses}

\* the lists of n positive integers whose product is at most bound
Positive(n, bound) == {g \in Lists(1..bound, n) : prod(g) <= bound}

\* a populated decomposition of 1 .. MaxDims dimensions with at most
\* MaxRanks ranks and MaxCells iterations, every tile within its extent,
\* on one array that reads the first iterator
NumericSubgraph(s) ==
    \E n \in 1..MaxDims :
        \E grid \in Positive(n, MaxRanks), dims \in Positive(n, MaxCells) :
            \E loc \in {l \in Lists(1..MaxCells, n) :
                            \A i \in 1..n : l[i] <= dims[i]} :
                s = IOAnalysisSubgraph(first_variables(n),
                        <<[arr |-> "A", accesses |-> <<<<"i">>>>]>>,
                        loc, grid, dims)

\* any input_arrays on two dimensions i, j of extents 3 and 4, split in
\* two tiles of 2 each
ArraySubgraph(s) ==
    \E arrays \in InputArrays :
        s = IOAnalysisSubgraph(first_variables(2), arrays,
                <<2, 2>>, <<2, 2>>, <<3, 4>>)

\* processorGrid=[2,2], localDomainDims=[4,4], globalDims=[8,8],
\* variables=[i,j]
ExampleA ==
    IOAnalysisSubgraph(first_variables(2),
                       <<[arr |-> "A", accesses |-> <<<<"i", "*", "j">>>>]>>,
                       <<4, 4>>, <<2, 2>>, <<8, 8>>)

\* an array read at "i*k" where i resolves to (0,4) and k to (0,8)
ExampleB ==
    IOAnalysisSubgraph(<<Symbol("i"), Symbol("k")>>,
                       <<[arr |-> "A", accesses |-> <<<<"i", "*", "k">>>>]>>,
                       <<4, 8>>, <<1, 1>>, <<4, 8>>)

\* the ranks get_data_decomposition is called with
Ranks == 0..(MaxRanks + 1)

\* no call yet
NoCall ==
    [error |-> "nocall", value |-> EmptyDict, idle |-> FALSE,
     p_pos |-> <<>>, pp |-> 0, iter_ranges |-> EmptyDict]

(***************************************************************************)
(* The solver session, the SDG and the engine.  Solver, SDG, sdfg_gen,     *)
(* parse_params and init_decomposition are imported (lines 5-8).           *)
(***************************************************************************)
\* no Solver object
NoSolver == [state |-> "absent", timeout |-> 0, requests |-> 0, closes |-> 0]

\* Solver(cached_only=..., caching_solutions=...): constructed, not started
Solver == [state |-> "new", timeout |-> 0, requests |-> 0, closes |-> 0]

\* solver.start_solver(remote): the session is open
start_solver(solver) == [solver EXCEPT !.state = "open"]

\* solver.set_timeout(t)
set_timeout(solver, t) == [solver EXCEPT !.timeout = t]

\* solver.end_solver(): the session is released
end_solver(solver) == [solver EXCEPT !.state = "closed", !.closes = @ + 1]

\* one solve request on the session
solve(solver) == [solver EXCEPT !.requests = @ + 1]

\* the Solver that params.solver names
params_solver(p) == IF p = "parsed" THEN "own" ELSE "caller"

\* a subgraph as the engine returns it: the decomposition fields are not
\* populated
engine_subgraph(name) ==
    [name |-> name, sizes |-> <<name + 2>>, loc_domain_dims |-> <<>>,
     p_grid |-> <<>>, dimensions_ordered |-> <<>>, inits |-> 0]

\* the smallest integer that is at least x / y
ceil_div(x, y) == (x + y - 1) \div y

\* subgr.init_decomposition(params.decomposition_params, params): the grid
\* has at most the target number of ranks, loc_domain_dims rounds
\* sizes / grid up, dimensions_ordered is the known problem size
init_decomposition(subgr) ==
    [subgr EXCEPT
        !.p_grid = [i \in 1..Len(subgr.sizes) |->
                        IF i = 1 THEN TargetRanks ELSE 1],
        !.loc_domain_dims = [i \in 1..Len(subgr.sizes) |->
                        IF i = 1 THEN ceil_div(subgr.sizes[i], TargetRanks)
                        ELSE subgr.sizes[i]],
        !.dimensions_ordered = subgr.sizes,
        !.inits = @ + 1]

(***************************************************************************)
(* perform_soap_analysis, lines 68-109.                                    *)
(***************************************************************************)
\* The def of lines 68-69 has the parameters sdfg and generate_schedule
\* only, so a call that passes params is refused with TypeError.  The body
\* assigns params (line 85), which makes params a local of the function,
\* and line 84 reads it before any assignment: every other call raises
\* UnboundLocalError at line 84, and lines 85-109 never run.
perform_soap_analysis_entry(given) ==
    IF given THEN "TypeError" ELSE "UnboundLocalError"

(***************************************************************************)
(* perform_soap_analysis_einsum, lines 113-150.                            *)
(***************************************************************************)
\* line 126: params == []
params_is_default(p) == p = "[]"

\* lines 127-131: parse_params(), Solver(...), start_solver, set_timeout(300)
\* and params.solver = solver
open_own_solver(s) ==
    [s EXCEPT !.own = set_timeout(start_solver(Solver), SolverTimeout)]

\* lines 139-141: the snapshot of a live subgraph; the three decomposition
\* fields take the defaults of lines 27-29
snapshot(subgr) ==
    [name |-> subgr.name, loc_domain_dims |-> <<>>, p_grid |-> <<>>,
     dimensions_ordered |-> <<>>]

\* lines 145-147: the three decomposition fields are copied from subgr
copy_decomposition(io_res_sg, subgr) ==
    [io_res_sg EXCEPT !.loc_domain_dims = subgr.loc_domain_dims,
                      !.p_grid = subgr.p_grid,
                      !.dimensions_ordered = subgr.dimensions_ordered]

\* line 142-143: init_decomposition runs if generate_schedule
einsum_subgr_after(subgr, gs) ==
    IF gs THEN init_decomposition(subgr) ELSE subgr

\* lines 139-147 for one subgraph
einsum_snapshot(subgr, gs) ==
    copy_decomposition(snapshot(subgr), einsum_subgr_after(subgr, gs))

(***************************************************************************)
(* Initial states.                                                         *)
(***************************************************************************)
DecompositionIdle ==
    /\ self0 = self
    /\ pp = 0
    /\ ret = NoCall

OrchestratorIdle ==
    /\ entry = "none"
    /\ pc = "idle"
    /\ error = "none"
    /\ generate_schedule = FALSE
    /\ params = "[]"
    /\ solvers = [caller |-> NoSolver, own |-> NoSolver]
    /\ solvers0 = solvers
    /\ sdg = 0
    /\ engine_calls = 0
    /\ subgraphs = <<>>
    /\ subgraphs_res = <<>>

\* get_data_decomposition on any subgraph of the model
Init ==
    /\ \E kind \in {"numeric", "arrays", "examples"} :
          IF kind = "numeric" THEN NumericSubgraph(self)
          ELSE IF kind = "arrays" THEN ArraySubgraph(self)
          ELSE self \in {ExampleA, ExampleB}
    /\ DecompositionIdle
    /\ OrchestratorIdle

\* the entry points, with example A as the subgraph at hand
InitOrch ==
    /\ self = ExampleA
    /\ DecompositionIdle
    /\ OrchestratorIdle

(***************************************************************************)
(* Actions.                                                                *)
(***************************************************************************)
\* a call self.get_data_decomposition(rank)
Call(rank) ==
    /\ ret' = get_data_decomposition(self, rank)
    /\ pp' = rank
    /\ self' = fields_after_call(self, rank)
    /\ UNCHANGED self0
    /\ UNCHANGED orchestrator_vars

\* the caller's Solver when it passes params: started or not, with the
\* timeout the caller chose
CallerSolvers ==
    {[state |-> st, timeout |-> 60, requests |-> 0, closes |-> 0] :
        st \in {"open", "new"}}

\* the arguments of an entry point: given says whether the caller passes
\* params (with params.solver its own Solver)
Enter(name, given, gs, caller) ==
    /\ pc = "idle"
    /\ entry' = name
    /\ generate_schedule' = gs
    /\ params' = IF given THEN "caller" ELSE "[]"
    /\ solvers' = [caller |-> IF given THEN caller ELSE NoSolver,
                   own |-> NoSolver]
    /\ solvers0' = solvers'

\* a call of perform_soap_analysis
CallGraph(given, gs, caller) ==
    /\ Enter("perform_soap_analysis", given, gs, caller)
    /\ pc' = "raised"
    /\ error' = perform_soap_analysis_entry(given)
    /\ UNCHANGED <<sdg, engine_calls, subgraphs, subgraphs_res>>
    /\ UNCHANGED decomposition_vars

\* a call of perform_soap_analysis_einsum
CallEinsum(given, gs, caller) ==
    /\ Enter("perform_soap_analysis_einsum", given, gs, caller)
    /\ pc' = "L126"
    /\ UNCHANGED <<error, sdg, engine_calls, subgraphs, subgraphs_res>>
    /\ UNCHANGED decomposition_vars

\* lines 126-131
EinsumParams ==
    /\ pc = "L126"
    /\ IF params_is_default(params)
       THEN /\ params' = "parsed"
            /\ solvers' = open_own_solver(solvers)
       ELSE UNCHANGED <<params, solvers>>
    /\ pc' = "L133"
    /\ UNCHANGED <<entry, error, generate_schedule, solvers0, sdg,
                   engine_calls, subgraphs, subgraphs_res>>
    /\ UNCHANGED decomposition_vars

\* the call ends with an exception
Raise(e) ==
    /\ pc' = "raised"
    /\ error' = e

\* line 133: sdfg = sdfg_gen(einsum_string), which may raise
EinsumGenerate(ok) ==
    /\ pc = "L133"
    /\ IF ok THEN pc' = "L134" /\ UNCHANGED error
       ELSE Raise("GeneratorError")
    /\ UNCHANGED <<entry, generate_schedule, params, solvers, solvers0, sdg,
                   engine_calls, subgraphs, subgraphs_res>>
    /\ UNCHANGED decomposition_vars

\* line 134: sdg = SDG(sdfg, params), which may raise; the graph has
\* components weakly connected components
EinsumSDG(ok, components) ==
    /\ pc = "L134"
    /\ IF ok THEN pc' = "L135" /\ sdg' = components /\ UNCHANGED error
       ELSE Raise("SDGError") /\ UNCHANGED sdg
    /\ UNCHANGED <<entry, generate_schedule, params, solvers, solvers0,
                   engine_calls, subgraphs, subgraphs_res>>
    /\ UNCHANGED decomposition_vars

\* sdg.calculate_IO_of_SDG(params): one solve request per subgraph on
\* params.solver; fails if that session is not open or a request fails
calculate_IO_of_SDG(s, p, n) ==
    [s EXCEPT ![params_solver(p)] =
        [@ EXCEPT !.requests = @ + n]]

\* line 135: Q, subgraphs = sdg.calculate_IO_of_SDG(params)
EinsumEngine(ok, n) ==
    /\ pc = "L135"
    /\ engine_calls' = engine_calls + 1
    /\ solvers' = calculate_IO_of_SDG(solvers, params, n)
    /\ IF ok /\ solvers[params_solver(params)].state = "open"
       THEN /\ pc' = "L138"
            /\ subgraphs' = [i \in 1..n |-> engine_subgraph(i)]
            /\ UNCHANGED error
       ELSE /\ Raise("SolverError")
            /\ UNCHANGED subgraphs
    /\ UNCHANGED <<entry, generate_schedule, params, solvers0, sdg,
                   subgraphs_res>>
    /\ UNCHANGED decomposition_vars

\* lines 138-148: one turn of the loop over subgraphs
EinsumSnapshot ==
    /\ pc = "L138"
    /\ Len(subgraphs_res) < Len(subgraphs)
    /\ LET i == Len(subgraphs_res) + 1
       IN  /\ subgraphs' = [subgraphs EXCEPT
                ![i] = einsum_subgr_after(@, generate_schedule)]
           /\ subgraphs_res' = Append(subgraphs_res,
                einsum_snapshot(subgraphs[i], generate_schedule))
    /\ UNCHANGED <<entry, pc, error, generate_schedule, params, solvers,
                   solvers0, sdg, engine_calls>>
    /\ UNCHANGED decomposition_vars

\* line 150: return IOAnalysis(...)
EinsumReturn ==
    /\ pc = "L138"
    /\ Len(subgraphs_res) = Len(subgraphs)
    /\ pc' = "returned"
    /\ UNCHANGED <<entry, error, generate_schedule, params, solvers,
                   solvers0, sdg, engine_calls, subgraphs, subgraphs_res>>
    /\ UNCHANGED decomposition_vars

Next == \E rank \in Ranks : Call(rank)

NextOrch ==
    \/ \E given, gs \in BOOLEAN, caller \in CallerSolvers :
            CallGraph(given, gs, caller)
    \/ \E given, gs \in BOOLEAN, caller \in CallerSolvers :
            CallEinsum(given, gs, caller)
    \/ EinsumParams
    \/ \E ok \in BOOLEAN : EinsumGenerate(ok)
    \/ \E ok \in BOOLEAN, components \in 1..MaxComponents :
            EinsumSDG(ok, components)
    \/ \E ok \in BOOLEAN, n \in 1..MaxSubgraphs : EinsumEngine(ok, n)
    \/ EinsumSnapshot
    \/ EinsumReturn

\* get_data_decomposition called any number of times, with any ranks
Spec == Init /\ [][Next]_vars

\* one call of an entry point
SpecOrch == InitOrch /\ [][NextOrch]_vars

(***************************************************************************)
(* Vocabulary of the properties.                                           *)
(***************************************************************************)
\* the call of the current state has been made
Called == ret.error # "nocall"

\* the ranks the decomposition uses
ActiveRanks(s) == 0..(prod(s.p_grid) - 1)

\* the latest call was made with an active rank
CalledActive == Called /\ pp \in ActiveRanks(self)

\* the indices of the half-open range (start, end)
Indices(rng) == {x \in rng[1]..(rng[2] - 1) : TRUE}

\* the coordinates of rank r (the p_pos of lines 39-43) and the range
\* table of rank r (the iter_ranges of lines 45-47)
CoordsOf(s, r) == unrank(s.p_grid, 1, r, <<>>).p_pos

RangesOf(s, r) == iter_ranges(s, CoordsOf(s, r))

\* the range rank r gets along dimension i, and its coordinate there
RangeOf(s, r, i) == RangesOf(s, r)[str(s.variables[i])]

CoordOf(s, r, i) == CoordsOf(s, r)[i]

Dims(s) == 1..Len(s.variables)

\* the local tiles of dimension i cover its global extent
Covers(s, i) == s.loc_domain_dims[i] * s.p_grid[i] >= s.dimensions_ordered[i]

\* the i-th digit of r as a row-major mixed-radix number with radices grid
Digit(grid, r, i) ==
    (r % prod(SubSeq(grid, i, Len(grid)))) \div
        prod(SubSeq(grid, i + 1, Len(grid)))

Smaller(a, b) == IF a <= b THEN a ELSE b

(***************************************************************************)
(* C1.  Coverage and partition: when the three decomposition lists have    *)
(* the same length and loc_domain_dims[i] * p_grid[i] >=                   *)
(* dimensions_ordered[i] for every i, then along every dimension i the     *)
(* active ranks take exactly the coordinates 0 .. p_grid[i]-1, ranks with  *)
(* the same coordinate get the same range, the ranges of all active ranks  *)
(* together are exactly [0, dimensions_ordered[i]), and the ranges of two  *)
(* ranks with different coordinates share no index.                        *)
(***************************************************************************)
C1_CoveragePartition ==
    (\A i \in Dims(self) : Covers(self, i)) =>
        LET served == {[rank |-> r, coord |-> CoordsOf(self, r),
                        ranges |-> RangesOf(self, r)] :
                            r \in ActiveRanks(self)}
        IN  \A i \in Dims(self) :
                LET key == str(self.variables[i])
                IN  /\ {t.coord[i] : t \in served} = 0..(self.p_grid[i] - 1)
                    /\ UNION {Indices(t.ranges[key]) : t \in served}
                            = 0..(self.dimensions_ordered[i] - 1)
                    /\ \A t1, t2 \in served :
                            IF t1.coord[i] = t2.coord[i]
                            THEN t1.ranges[key] = t2.ranges[key]
                            ELSE Indices(t1.ranges[key])
                                    \cap Indices(t2.ranges[key]) = {}

\* the last rank of a 2 x 2 grid over extents (3, 2) with tiles (2, 1) has
\* been served its clamped block
C1_Witness ==
    /\ self.p_grid = <<2, 2>>
    /\ self.loc_domain_dims = <<2, 1>>
    /\ self.dimensions_ordered = <<3, 2>>
    /\ pp = 3
    /\ ret.error = "none"
    /\ ret.iter_ranges[<<"i">>] = <<2, 3>>
    /\ ret.iter_ranges[<<"j">>] = <<1, 2>>

(***************************************************************************)
(* C2.  A call with an active rank r resolves variables[i] to              *)
(* (c_i * loc_domain_dims[i], min((c_i+1) * loc_domain_dims[i],            *)
(* dimensions_ordered[i])), c_i the i-th row-major mixed-radix digit of r; *)
(* on example A the ranks 0..3 get (i, j) = ((0,4),(0,4)), ((0,4),(4,8)),  *)
(* ((4,8),(0,4)), ((4,8),(4,8)).                                           *)
(***************************************************************************)
C2_RangeFormula ==
    CalledActive =>
        /\ \A i \in Dims(self) :
            LET c == Digit(self.p_grid, pp, i)
            IN  /\ ret.p_pos[i] = c
                /\ ret.iter_ranges[str(self.variables[i])] =
                     <<c * self.loc_domain_dims[i],
                       Smaller((c + 1) * self.loc_domain_dims[i],
                               self.dimensions_ordered[i])>>
        /\ self = ExampleA =>
            /\ ret.error = "none"
            /\ ret.value["A"] =
                [it \in {<<"i">>, <<"j">>} |->
                    IF it = <<"i">>
                    THEN (IF pp \in {0, 1} THEN <<0, 4>> ELSE <<4, 8>>)
                    ELSE (IF pp \in {0, 2} THEN <<0, 4>> ELSE <<4, 8>>)]

\* rank 1 of example A has been served i = (0,4), j = (4,8)
C2_Witness ==
    /\ self = ExampleA
    /\ pp = 1
    /\ ret.error = "none"
    /\ ret.value["A"][<<"i">>] = <<0, 4>>
    /\ ret.value["A"][<<"j">>] = <<4, 8>>

(***************************************************************************)
(* C3.  Per-array composition, as the claim states it: a call with an      *)
(* active rank that returns maps every array to the ranges of the          *)
(* iterators of all of its access terms, and to nothing else.              *)
(***************************************************************************)
\* the iterator names of all access terms of an array
IteratorsOf(array) ==
    UNION {{split(array.accesses[n], "*")[k] :
                k \in 1..Len(split(array.accesses[n], "*"))} :
           n \in 1..Len(array.accesses)}

C3_AllTermsComposed ==
    (CalledActive /\ ret.error = "none") =>
        /\ DOMAIN ret.value =
              {self.input_arrays[n].arr : n \in 1..Len(self.input_arrays)}
        /\ \A n \in 1..Len(self.input_arrays) :
              LET array == self.input_arrays[n]
              IN  ret.value[array.arr] =
                    [it \in IteratorsOf(array) |-> ret.iter_ranges[it]]

(***************************************************************************)
(* C4.  Idle rank: a call with rank >= product(p_grid) returns the empty   *)
(* mapping, raises nothing and prints the idle diagnostic, whatever        *)
(* input_arrays holds; a call with a smaller rank does not take the idle   *)
(* branch.                                                                 *)
(***************************************************************************)
C4_IdleRank ==
    Called =>
        IF pp >= prod(self.p_grid)
        THEN ret.idle /\ ret.error = "none" /\ ret.value = EmptyDict
        ELSE ~ret.idle

\* the rank equal to product(p_grid) is idle on a subgraph whose array
\* reads an iterator that is no variable, which fails every active rank
C4_Witness ==
    /\ pp = prod(self.p_grid)
    /\ ret.idle
    /\ ret.error = "none"
    /\ ret.value = EmptyDict
    /\ get_data_decomposition(self, 0).error = "KeyError"

(***************************************************************************)
(* C5.  Boundary clamping.                                                 *)
(***************************************************************************)
\* the latest call served the last coordinate of dimension i
LastCoord(i) == CalledActive /\ ret.p_pos[i] = self.p_grid[i] - 1

\* the range the latest call gave dimension i is shorter than the tile
\* and ends within the global extent
ShortAndInside(i) ==
    LET rng == ret.iter_ranges[str(self.variables[i])]
    IN  /\ rng[2] - rng[1] < self.loc_domain_dims[i]
        /\ rng[2] <= self.dimensions_ordered[i]

\* C5 as the claim states it: in every dimension i where
\* dimensions_ordered[i] is not a multiple of
\* loc_domain_dims[i] * p_grid[i], the last coordinate's range is strictly
\* shorter than loc_domain_dims[i] and ends at or before
\* dimensions_ordered[i].
C5_ClampingAsStated ==
    \A i \in Dims(self) :
        (/\ LastCoord(i)
         /\ self.dimensions_ordered[i]
                % (self.loc_domain_dims[i] * self.p_grid[i]) # 0)
            => ShortAndInside(i)

\* C5 amended: in every dimension i where dimensions_ordered[i] is not a
\* multiple of loc_domain_dims[i] * p_grid[i], the last coordinate's range
\* ends at or before dimensions_ordered[i], and where the tiles also cover
\* the extent (loc_domain_dims[i] * p_grid[i] >= dimensions_ordered[i]) it
\* is strictly shorter than loc_domain_dims[i].
C5_ClampingCovered ==
    \A i \in Dims(self) :
        (/\ LastCoord(i)
         /\ self.dimensions_ordered[i]
                % (self.loc_domain_dims[i] * self.p_grid[i]) # 0)
            => LET rng == ret.iter_ranges[str(self.variables[i])]
               IN  /\ rng[2] <= self.dimensions_ordered[i]
                   /\ Covers(self, i) =>
                        rng[2] - rng[1] < self.loc_domain_dims[i]

\* the last of two coordinates of an extent of 3 in tiles of 2 got (2, 3)
C5_Witness ==
    /\ self.p_grid = <<2>>
    /\ self.loc_domain_dims = <<2>>
    /\ self.dimensions_ordered = <<3>>
    /\ LastCoord(1)
    /\ ret.iter_ranges[<<"i">>] = <<2, 3>>

(***************************************************************************)
(* C9.  Unresolved access term: a call with an active rank on a subgraph   *)
(* where some iterator of some access term of some array is no key of the  *)
(* range table raises KeyError and returns nothing; a call that returns    *)
(* has found every iterator of every access term in the range table.       *)
(***************************************************************************)
\* some iterator of some access term of some array has no range
Unresolved(s, ranges) ==
    \E n \in 1..Len(s.input_arrays) :
        \E it \in IteratorsOf(s.input_arrays[n]) : it \notin DOMAIN ranges

C9_UnresolvedRaises ==
    CalledActive =>
        IF Unresolved(self, ret.iter_ranges)
        THEN ret.error = "KeyError" /\ ret.value = EmptyDict
        ELSE ret.error = "none"

\* array "B" reads k, which is no variable, after array "A" resolved
C9_Witness ==
    /\ CalledActive
    /\ Len(self.input_arrays) = 2
    /\ ~Unresolved([self EXCEPT !.input_arrays = <<self.input_arrays[1]>>],
                   ret.iter_ranges)
    /\ <<"k">> \in IteratorsOf(self.input_arrays[2])
    /\ ret.error = "KeyError"

Exited == pc \in {"returned", "raised"}

\* the caller passed params, with its own Solver
ParamsGiven == solvers0.caller.state # "absent"

\* the call constructed and opened a Solver of its own
OwnOpened == solvers.own.state \in {"open", "closed"}

(***************************************************************************)
(* C6.  Session release, as the claim states it: when a call that opened   *)
(* its own solver session has ended, by return or by exception, that       *)
(* session has been released.                                              *)
(***************************************************************************)
C6_OwnSessionReleased ==
    (Exited /\ OwnOpened) => solvers.own.state = "closed"

(***************************************************************************)
(* C7.  Connectivity precondition, as the claim states it: with an SDG of  *)
(* more or fewer than one weakly connected component the engine is not     *)
(* called, no solve request is made and no IOAnalysis is returned.         *)
(***************************************************************************)
C7_DisconnectedStopsBeforeEngine ==
    (sdg # 0 /\ sdg # 1) =>
        /\ engine_calls = 0
        /\ solvers.own.requests = 0
        /\ solvers.caller.requests = 0
        /\ pc # "returned"

(***************************************************************************)
(* C8.  Caller-owned session, as the claim states it: when the caller      *)
(* passes params to an entry point, the call constructs no Solver of its   *)
(* own, the caller's Solver keeps its state and its timeout at every point *)
(* of the call and after it, and the analysis runs on the caller's Solver: *)
(* unless building the graph failed, the engine was called and its solve   *)
(* requests went to the caller's Solver.                                   *)
(***************************************************************************)
\* the call built no Solver and left the caller's as it was
CallerSessionKept ==
    /\ solvers.own = NoSolver
    /\ solvers.caller.state = solvers0.caller.state
    /\ solvers.caller.timeout = solvers0.caller.timeout

C8_CallerSessionUsed ==
    ParamsGiven =>
        /\ CallerSessionKept
        /\ (Exited /\ error \notin {"GeneratorError", "SDGError"}) =>
                engine_calls > 0 /\ solvers.caller.requests > 0

\* what holds of C8: perform_soap_analysis_einsum does all of it
C8_EinsumCallerSession ==
    (ParamsGiven /\ entry = "perform_soap_analysis_einsum") =>
        /\ CallerSessionKept
        /\ (Exited /\ error \notin {"GeneratorError", "SDGError"}) =>
                engine_calls > 0 /\ solvers.caller.requests > 0

(***************************************************************************)
(* C11.  Session close ordering, as the claim states it: in a successful   *)
(* run of an entry point that opened its own solver session, once the      *)
(* engine's analysis has returned, the session is closed before any        *)
(* snapshot is built or any init_decomposition is invoked, it is closed    *)
(* when the IOAnalysis is returned, and end_solver ran exactly once.       *)
(***************************************************************************)
\* the engine's analysis has returned to the entry point
EngineReturned == pc \in {"L138", "returned"} /\ engine_calls > 0

\* a snapshot was built or an init_decomposition was invoked
SnapshotStarted ==
    \/ Len(subgraphs_res) > 0
    \/ \E i \in 1..Len(subgraphs) : subgraphs[i].inits > 0

C11_ClosedBeforeSnapshots ==
    (OwnOpened /\ EngineReturned /\ (SnapshotStarted \/ pc = "returned")) =>
        /\ solvers.own.state = "closed"
        /\ solvers.own.closes = 1


(***************************************************************************)
(* C12.  Effect of generate_schedule, as the claim states it.  In a run of *)
(* perform_soap_analysis, init_decomposition is invoked on a subgraph and  *)
(* its three decomposition fields are copied into its snapshot if and only *)
(* if generate_schedule is true, and they stay empty otherwise.  In a run  *)
(* of perform_soap_analysis_einsum, init_decomposition is invoked only if  *)
(* generate_schedule is true and the live subgraph's three fields are      *)
(* copied into every snapshot.  In both, a snapshot with copied fields has *)
(* the live subgraph's values after its own init_decomposition, and there  *)
(* is one snapshot per subgraph, in the engine's order.                    *)
(***************************************************************************)
\* the three decomposition fields of a snapshot or of a live subgraph
decomposition_fields(x) == <<x.loc_domain_dims, x.p_grid, x.dimensions_ordered>>

\* the snapshots built so far name the engine's subgraphs, in its order
SnapshotsInOrder ==
    /\ Len(subgraphs_res) <= Len(subgraphs)
    /\ pc = "returned" => Len(subgraphs_res) = Len(subgraphs)
    /\ \A j \in 1..Len(subgraphs_res) : subgraphs_res[j].name = subgraphs[j].name

\* init_decomposition ran once on every subgraph that has its snapshot if
\* generate_schedule, and on no subgraph otherwise
InitIffGenerate ==
    \A j \in 1..Len(subgraphs) :
        subgraphs[j].inits =
            IF generate_schedule /\ j <= Len(subgraphs_res) THEN 1 ELSE 0

\* the errors the steps before the snapshots may end a call with
EngineErrors == {"GeneratorError", "SDGError", "SolverError", "AssertionError"}

\* perform_soap_analysis: the run reaches its snapshots unless the graph or
\* the engine failed, and copies the fields if and only if generate_schedule
C12_GraphSchedule ==
    entry = "perform_soap_analysis" =>
        /\ (Exited /\ error \notin EngineErrors) => pc = "returned"
        /\ SnapshotsInOrder
        /\ InitIffGenerate
        /\ \A j \in 1..Len(subgraphs_res) :
              decomposition_fields(subgraphs_res[j]) =
                  IF generate_schedule
                  THEN decomposition_fields(subgraphs[j])
                  ELSE <<<<>>, <<>>, <<>>>>

\* perform_soap_analysis_einsum: the fields are copied whatever the flag
C12_EinsumSchedule ==
    entry = "perform_soap_analysis_einsum" =>
        /\ SnapshotsInOrder
        /\ InitIffGenerate
        /\ \A j \in 1..Len(subgraphs_res) :
              decomposition_fields(subgraphs_res[j]) =
                  decomposition_fields(subgraphs[j])

C12_GenerateSchedule == C12_GraphSchedule /\ C12_EinsumSchedule


(***************************************************************************)
(* C13.  The unranking of lines 38-43 is a bijection between the active    *)
(* ranks and the coordinate tuples of the grid: a call with an active rank *)
(* r computes one coordinate per grid dimension with                       *)
(* 0 <= p_pos[i] < p_grid[i], leaves the residual rank 0 after the last    *)
(* dimension, r is the sum of p_pos[i] * prod(p_grid[i+1:]), and no other  *)
(* active rank gets the same coordinates.                                  *)
(***************************************************************************)
\* the sum over i >= n of coords[i] * prod(grid[i+1:])
RECURSIVE RowMajorRank(_, _, _)
RowMajorRank(grid, coords, n) ==
    IF n > Len(grid) THEN 0
    ELSE coords[n] * prod(SubSeq(grid, n + 1, Len(grid)))
            + RowMajorRank(grid, coords, n + 1)

C13_UnrankBijection ==
    CalledActive =>
        /\ Len(ret.p_pos) = Len(self.p_grid)
        /\ \A i \in 1..Len(self.p_grid) :
                0 <= ret.p_pos[i] /\ ret.p_pos[i] < self.p_grid[i]
        /\ ret.pp = 0
        /\ RowMajorRank(self.p_grid, ret.p_pos, 1) = pp
        /\ \A r \in ActiveRanks(self) \ {pp} : CoordsOf(self, r) # ret.p_pos

\* rank 3 of the grid <<2, 2>> has been unranked to <<1, 1>>, and rank 2
\* of the same grid has other coordinates
C13_Witness ==
    /\ CalledActive
    /\ self.p_grid = <<2, 2>>
    /\ pp = 3
    /\ ret.error = "none"
    /\ ret.p_pos = <<1, 1>>
    /\ ret.pp = 0
    /\ CoordsOf(self, 2) = <<1, 0>>


(***************************************************************************)
(* C14.  Well-formed ranges, as the claim states it: where                 *)
(* loc_domain_dims[i] = ceil(dimensions_ordered[i] / p_grid[i]) for every  *)
(* dimension, a call with an active rank computes for every dimension a    *)
(* range with 0 <= start <= end <= dimensions_ordered[i].                  *)
(***************************************************************************)
\* the local tile of every dimension is the global extent over the grid
\* factor, rounded up
CeilTiles(s) ==
    \A i \in Dims(s) :
        s.loc_domain_dims[i] = ceil_div(s.dimensions_ordered[i], s.p_grid[i])

\* the range the latest call computed for dimension i
ComputedRange(i) == ret.iter_ranges[str(self.variables[i])]

C14_WellFormedAsStated ==
    (CalledActive /\ CeilTiles(self)) =>
        \A i \in Dims(self) :
            /\ 0 <= ComputedRange(i)[1]
            /\ ComputedRange(i)[1] <= ComputedRange(i)[2]
            /\ ComputedRange(i)[2] <= self.dimensions_ordered[i]

(***************************************************************************)
(* C14, as the code has it: under the same condition the start is at least *)
(* 0 and the end at most dimensions_ordered[i]; the start is at most the   *)
(* end exactly when p_pos[i] * loc_domain_dims[i] <= dimensions_ordered[i],*)
(* and otherwise the range is (p_pos[i] * loc_domain_dims[i],              *)
(* dimensions_ordered[i]), whose start lies beyond its end and beyond the  *)
(* global extent.                                                          *)
(***************************************************************************)
C14_WellFormedWithWork ==
    (CalledActive /\ CeilTiles(self)) =>
        \A i \in Dims(self) :
            LET start == ComputedRange(i)[1]
                end == ComputedRange(i)[2]
                tile == ret.p_pos[i] * self.loc_domain_dims[i]
            IN  /\ 0 <= start
                /\ end <= self.dimensions_ordered[i]
                /\ (start <= end) = (tile <= self.dimensions_ordered[i])
                /\ tile > self.dimensions_ordered[i] =>
                        <<start, end>> = <<tile, self.dimensions_ordered[i]>>

\* rank 3 of the grid <<4>> over 5 cells in tiles of ceil(5/4) = 2 has
\* been served (6, 5), and rank 2 of the same grid (4, 5)
C14_Witness ==
    /\ CalledActive
    /\ CeilTiles(self)
    /\ self.p_grid = <<4>>
    /\ self.dimensions_ordered = <<5>>
    /\ pp = 3
    /\ ComputedRange(1) = <<6, 5>>
    /\ RangeOf(self, 2, 1) = <<4, 5>>


=============================================================================
